---- MODULE Spec2Model ----
(***************************************************************************)
(* The FRED proxy server: a TTL cache in front of an upstream HTTP API,    *)
(* a single-series handler, a batch handler with concurrent fan-out, a     *)
(* health endpoint and a cache-clear endpoint.                             *)
(*                                                                         *)
(* The model follows src/unnamed/part_001.  src/unnamed/part_000 is the    *)
(* same server line for line, except that it falls back to a built-in key  *)
(* and then refuses that key: for an environment key that is unset or is a *)
(* key of the user's it answers as part_001 does.  src/server.js holds two *)
(* earlier drafts of the server in one file; it is not modelled.           *)
(*                                                                         *)
(* JavaScript runs every handler to completion up to its next `await`.     *)
(* Each action below is one such synchronous segment.  The segment between *)
(* `await fetch(...)` and `await response.json()/text()` touches no shared *)
(* state, so the two awaits are resolved by one action that draws the      *)
(* whole upstream outcome.  A segment reads Date.now() once in the model:  *)
(* the clock does not advance inside a synchronous segment.                *)
(*                                                                         *)
(* Strings are tuples of one-character strings, so that concatenation and  *)
(* trimming are computed.  The JavaScript value `undefined` and a number   *)
(* are tuples holding one longer token, which no string contains.          *)
(***************************************************************************)
EXTENDS Integers, Sequences, FiniteSets, TLC

(***************************************************************************)
(* Bounds of the model.                                                    *)
(***************************************************************************)
MaxReq == 2
MaxTicks == 1
MaxFetch == 2
MaxLen == 2
MaxBatch == 1

Reqs == 1..MaxReq

(***************************************************************************)
(* JavaScript values.                                                      *)
(***************************************************************************)
Undefined == <<"undefined">>
Number7 == <<"number 7">>

G == <<"G">>
C == <<"C">>
D1 == <<"2">>

Truthy(v) == v # Undefined /\ v # <<>>

IsString(v) == v # Undefined /\ v # Number7

\* String conversion in a template literal or a property key.
ToStr(v) ==
    IF v = Undefined THEN <<"u", "n", "d", "e", "f", "i", "n", "e", "d">>
    ELSE IF v = Number7 THEN <<"7">>
    ELSE v

RECURSIVE TrimStart(_)
TrimStart(s) ==
    IF s # <<>> /\ Head(s) = " " THEN TrimStart(Tail(s)) ELSE s

RECURSIVE TrimEnd(_)
TrimEnd(s) ==
    IF s # <<>> /\ s[Len(s)] = " " THEN TrimEnd(SubSeq(s, 1, Len(s) - 1)) ELSE s

\* String.prototype.trim
trim(s) == TrimEnd(TrimStart(s))

(***************************************************************************)
(* Configuration.                                                          *)
(***************************************************************************)
\* process.env.FRED_API_KEY: "" stands for an unset variable.
EnvKeys == {"", "k"}

CACHE_DURATION == 5 * 60 * 1000

VARIABLES envKey, now, cache, req, fetches, served

vars == <<envKey, now, cache, req, fetches, served>>

FRED_API_KEY == envKey

\* A mutant of KeyMissing: only a placeholder key is refused.
KeyMissingPlaceholder == FRED_API_KEY = "YOUR_FRED_API_KEY"

\* !FRED_API_KEY: the credential check of both handlers.
KeyMissing == FRED_API_KEY = ""

(***************************************************************************)
(* The cache key.                                                          *)
(***************************************************************************)
NoneStr == <<"n", "o", "n", "e">>

\* A mutant of getCacheKey: the dates go into the key as they are.
getCacheKeyRaw(seriesId, startDate, endDate) ==
    ToStr(seriesId) \o <<"-">> \o ToStr(startDate) \o <<"-">> \o ToStr(endDate)

getCacheKey(seriesId, startDate, endDate) ==
    ToStr(seriesId) \o <<"-">>
        \o (IF Truthy(startDate) THEN ToStr(startDate) ELSE NoneStr) \o <<"-">>
        \o (IF Truthy(endDate) THEN ToStr(endDate) ELSE NoneStr)

(***************************************************************************)
(* The cache: a Map from key to {data, timestamp}.                         *)
(***************************************************************************)
EmptyMap == <<>>

Has(m, k) == k \in DOMAIN m

\* Map.prototype.set and property assignment: overwrite as a whole.
Put(m, k, v) == (k :> v) @@ m

\* A mutant of IsFresh: the comparison is turned round.
IsFreshInverted(key, t) ==
    Has(cache, key) /\ t - cache[key].timestamp > CACHE_DURATION

\* cachedData && Date.now() - cachedData.timestamp < CACHE_DURATION
IsFresh(key, t) == Has(cache, key) /\ t - cache[key].timestamp < CACHE_DURATION

\* A mutant of CacheSet: a write drops the entries as old as the TTL.
CacheSetPurge(key, data, t) ==
    Put([k \in {j \in DOMAIN cache : t - cache[j].timestamp < CACHE_DURATION}
            |-> cache[k]],
        key, [data |-> data, timestamp |-> t])

\* A mutant of CacheSet: an entry already stored keeps its timestamp.
CacheSetKeepStamp(key, data, t) ==
    Put(cache, key, [data |-> data,
                     timestamp |-> IF Has(cache, key) THEN cache[key].timestamp ELSE t])

\* cache.set(cacheKey, { data, timestamp: Date.now() })
CacheSet(key, data, t) == Put(cache, key, [data |-> data, timestamp |-> t])

(***************************************************************************)
(* The upstream request and its outcomes.                                  *)
(***************************************************************************)
\* The query parameters of fredURL.
fredURL(seriesId, start_date, end_date, sort_order) ==
    [series_id |-> ToStr(seriesId),
     sort_order |-> sort_order,
     observation_start |-> IF Truthy(start_date) THEN ToStr(start_date) ELSE Undefined,
     observation_end |-> IF Truthy(end_date) THEN ToStr(end_date) ELSE Undefined]

\* What the upstream returned for a URL: the n-th body it served.
Payload(url, n) == [url |-> url, ver |-> n]

\* An error body is text that JSON.parse accepts or rejects.
ErrBodies == {[raw |-> "{\"error_code\":400}", json |-> TRUE],
              [raw |-> "Bad Gateway", json |-> FALSE]}

\* fetch rejects; a success status whose body parses, or does not; an error
\* status whose body arrives, or does not.
Outcomes ==
    {[kind |-> "reject"], [kind |-> "ok"], [kind |-> "ok_malformed"],
     [kind |-> "error_nobody", status |-> 404]}
    \cup {[kind |-> "error", status |-> 404, body |-> b] : b \in ErrBodies}
    \cup {[kind |-> "error", status |-> 429, body |-> b] : b \in ErrBodies}

\* JSON.parse(errorText), or errorText when it throws.
ParseOrRaw(b) == IF b.json THEN [parsed |-> b.raw] ELSE [text |-> b.raw]

RawText(b) == [text |-> b.raw]

(***************************************************************************)
(* Requests.  req[r] is the state of the handler serving connection r:     *)
(* its inputs, where it is suspended (pc) and the response it sent (resp). *)
(*   pc = "idle"      no request on this connection                        *)
(*   pc = "fetching"  suspended in an await, no response sent              *)
(*   pc = "done"      the response was sent                                *)
(*   pc = "hung"      the handler threw outside any try: no response       *)
(***************************************************************************)
NoResp == [status |-> 0]

Idle == [kind |-> "none", pc |-> "idle", resp |-> NoResp]

Respond(status, body) == [status |-> status, body |-> body]

\* The callbacks of a batch request that are suspended in an await.
Running(q) == q.kind = "batch" /\ \E i \in DOMAIN q.tasks : q.tasks[i].st = "pending"

\* A request whose response (or lack of one) is final and before its client.
Observed(q) == q.pc \in {"done", "hung"} /\ ~Running(q)

\* A client takes its response before the next event happens; no handler
\* reads another connection's response, so this orders events the server
\* cannot tell apart.  Connections are interchangeable: a new request takes
\* the lowest free one.
Quiet == \A r \in Reqs : ~Observed(req[r])

Free(r) ==
    /\ Quiet
    /\ req[r].pc = "idle"
    /\ \A r2 \in Reqs : r2 < r => req[r2].pc # "idle"

Init ==
    /\ envKey \in EnvKeys
    /\ now = 0
    /\ cache = EmptyMap
    /\ req = [r \in Reqs |-> Idle]
    /\ fetches = 0
    /\ served = 0

(***************************************************************************)
(* GET /api/fred/:seriesId, up to `await fetch(fredURL)`.                  *)
(***************************************************************************)
SingleStart(seriesId, start_date, end_date, sort_order) ==
    LET cacheKey == getCacheKey(seriesId, start_date, end_date)
        base == [kind |-> "single", seriesId |-> seriesId,
                 start_date |-> start_date, end_date |-> end_date,
                 sort_order |-> sort_order, cacheKey |-> cacheKey,
                 url |-> fredURL(seriesId, start_date, end_date, sort_order)]
    IN  IF ~Truthy(seriesId)
        THEN base @@ [pc |-> "done", via |-> "validation",
                      resp |-> Respond(400, [error |-> "Missing series_id parameter"])]
        ELSE IF KeyMissing
        THEN base @@ [pc |-> "done", via |-> "config",
                      resp |-> Respond(500, [error |-> "Server configuration error"])]
        ELSE IF IsFresh(cacheKey, now)
        THEN base @@ [pc |-> "done", via |-> "hit",
                      resp |-> Respond(200, cache[cacheKey].data)]
        ELSE base @@ [pc |-> "fetching", via |-> "fetch", resp |-> NoResp]

\* A mutant of SingleRequest: a hit stores the entry again with the time of
\* the hit.
SingleRequestTouch(r, seriesId, start_date, end_date, sort_order) ==
    LET q == SingleStart(seriesId, start_date, end_date, sort_order)
    IN  /\ Free(r)
        /\ q.pc = "fetching" => fetches < MaxFetch
        /\ req' = [req EXCEPT ![r] = q]
        /\ fetches' = IF q.pc = "fetching" THEN fetches + 1 ELSE fetches
        /\ cache' = IF q.via = "hit"
                    THEN CacheSet(q.cacheKey, cache[q.cacheKey].data, now)
                    ELSE cache
        /\ UNCHANGED <<envKey, now, served>>

SingleRequest(r, seriesId, start_date, end_date, sort_order) ==
    LET q == SingleStart(seriesId, start_date, end_date, sort_order)
    IN  /\ Free(r)
        /\ q.pc = "fetching" => fetches < MaxFetch
        /\ req' = [req EXCEPT ![r] = q]
        /\ fetches' = IF q.pc = "fetching" THEN fetches + 1 ELSE fetches
        /\ UNCHANGED <<envKey, now, cache, served>>

(***************************************************************************)
(* GET /api/fred/:seriesId, from the upstream's answer to the response.    *)
(***************************************************************************)
TransportMessage(o) ==
    CASE o.kind = "reject" -> "fetch failed"
      [] o.kind = "ok_malformed" -> "Unexpected token < in JSON"
      [] o.kind = "error_nobody" -> "terminated"

SingleErrorBody(q, o) ==
    [error |-> "Failed to fetch data from FRED for series",
     series |-> ToStr(q.seriesId), details |-> ParseOrRaw(o.body)]

\* A mutant of SingleResponse: an upstream error status is answered as a 500.
SingleResponseFlat(q, o) ==
    CASE o.kind = "ok" -> Respond(200, Payload(q.url, served + 1))
      [] o.kind = "error" -> Respond(500, SingleErrorBody(q, o))
      [] OTHER -> Respond(500, [error |-> "Internal server error when fetching data",
                                message |-> TransportMessage(o)])

SingleResponse(q, o) ==
    CASE o.kind = "ok" -> Respond(200, Payload(q.url, served + 1))
      [] o.kind = "error" -> Respond(o.status, SingleErrorBody(q, o))
      [] OTHER -> Respond(500, [error |-> "Internal server error when fetching data",
                                message |-> TransportMessage(o)])

\* A mutant of SingleCacheAfter: an entry that is still fresh is not overwritten.
SingleCacheAfterFirstWins(q, o) ==
    IF o.kind = "ok" /\ ~IsFresh(q.cacheKey, now)
    THEN CacheSet(q.cacheKey, Payload(q.url, served + 1), now)
    ELSE cache

\* A mutant of SingleCacheAfter: the store is written before the body is parsed.
SingleCacheAfterEager(q, o) ==
    IF o.kind \in {"ok", "ok_malformed"}
    THEN CacheSet(q.cacheKey, Payload(q.url, served + 1), now)
    ELSE cache

\* A mutant of SingleCacheAfter: a failed fetch evicts the key.
SingleCacheAfterEvict(q, o) ==
    IF o.kind = "ok"
    THEN CacheSet(q.cacheKey, Payload(q.url, served + 1), now)
    ELSE [k \in DOMAIN cache \ {q.cacheKey} |-> cache[k]]

SingleCacheAfter(q, o) ==
    IF o.kind = "ok"
    THEN CacheSet(q.cacheKey, Payload(q.url, served + 1), now)
    ELSE cache

\* A mutant of SingleFetchDone: a rejected fetch is tried again.
SingleFetchDoneRetry(r, o) ==
    /\ Quiet
    /\ req[r].kind = "single"
    /\ req[r].pc = "fetching"
    /\ IF o.kind = "reject" /\ fetches < MaxFetch
       THEN /\ fetches' = fetches + 1
            /\ UNCHANGED <<envKey, now, cache, req, served>>
       ELSE /\ cache' = SingleCacheAfter(req[r], o)
            /\ req' = [req EXCEPT ![r] =
                         [pc |-> "done", outcome |-> o,
                          resp |-> SingleResponse(req[r], o)] @@ req[r]]
            /\ served' = IF o.kind = "ok" THEN served + 1 ELSE served
            /\ UNCHANGED <<envKey, now, fetches>>

SingleFetchDone(r, o) ==
    /\ Quiet
    /\ req[r].kind = "single"
    /\ req[r].pc = "fetching"
    /\ cache' = SingleCacheAfter(req[r], o)
    /\ req' = [req EXCEPT ![r] = [pc |-> "done", outcome |-> o,
                                   resp |-> SingleResponse(req[r], o)] @@ req[r]]
    /\ served' = IF o.kind = "ok" THEN served + 1 ELSE served
    /\ UNCHANGED <<envKey, now, fetches>>

(***************************************************************************)
(* POST /api/fred/multiple.  `series` is the request body's field: absent  *)
(* (any falsy value), a non-empty string (any truthy value that is no      *)
(* array) or an array whose elements are strings or numbers.               *)
(***************************************************************************)
SeriesUndefined == [t |-> "undefined", elems |-> <<>>]
SeriesString == [t |-> "string", elems |-> <<>>]
SeriesArray(elems) == [t |-> "array", elems |-> elems]

\* A mutant of TaskStart: the batch path keeps its entries under keys of its own.
TaskStartOwnKeys(e, start_date, end_date) ==
    LET seriesId == IF IsString(e) THEN trim(e) ELSE e
        cacheKey == <<"m", ":">> \o getCacheKey(seriesId, start_date, end_date)
        base == [raw |-> e, id |-> seriesId, cacheKey |-> cacheKey,
                 url |-> fredURL(seriesId, start_date, end_date, "desc")]
    IN  IF ~IsString(e)
        THEN [raw |-> e, st |-> "rejected"]
        ELSE IF seriesId = <<>>
        THEN [raw |-> e, st |-> "blank"]
        ELSE IF IsFresh(cacheKey, now)
        THEN base @@ [st |-> "hit", data |-> cache[cacheKey].data]
        ELSE base @@ [st |-> "pending"]

\* A mutant of TaskStart: the identifier is used untrimmed.
TaskStartNoTrim(e, start_date, end_date) ==
    LET seriesId == e
        cacheKey == getCacheKey(seriesId, start_date, end_date)
        base == [raw |-> e, id |-> seriesId, cacheKey |-> cacheKey,
                 url |-> fredURL(seriesId, start_date, end_date, "desc")]
    IN  IF ~IsString(e)
        THEN [raw |-> e, st |-> "rejected"]
        ELSE IF seriesId = <<>>
        THEN [raw |-> e, st |-> "blank"]
        ELSE IF IsFresh(cacheKey, now)
        THEN base @@ [st |-> "hit", data |-> cache[cacheKey].data]
        ELSE base @@ [st |-> "pending"]

\* One callback of series.map, up to its first await.
TaskStart(e, start_date, end_date) ==
    LET seriesId == trim(e)
        cacheKey == getCacheKey(seriesId, start_date, end_date)
        base == [raw |-> e, id |-> seriesId, cacheKey |-> cacheKey,
                 url |-> fredURL(seriesId, start_date, end_date, "desc")]
    IN  IF ~IsString(e)
        THEN [raw |-> e, st |-> "rejected"]
        ELSE IF seriesId = <<>>
        THEN [raw |-> e, st |-> "blank"]
        ELSE IF IsFresh(cacheKey, now)
        THEN base @@ [st |-> "hit", data |-> cache[cacheKey].data]
        ELSE base @@ [st |-> "pending"]

\* The results object after the callbacks that hit the cache have assigned.
RECURSIVE HitResults(_, _)
HitResults(tasks, results) ==
    IF tasks = <<>> THEN results
    ELSE HitResults(Tail(tasks),
                    IF Head(tasks).st = "hit"
                    THEN Put(results, Head(tasks).id, Head(tasks).data)
                    ELSE results)

AnyTask(tasks, st) == \E i \in DOMAIN tasks : tasks[i].st = st

\* await Promise.all(promises); res.json(results), and the outer catch.
\* `rejectedNow`: a promise has just been rejected.
Settle(q, rejectedNow) ==
    IF q.pc # "fetching" THEN q
    ELSE IF rejectedNow
    THEN [pc |-> "done",
          resp |-> Respond(500, [error |-> "Internal server error while processing multiple series"])]
         @@ q
    ELSE IF ~AnyTask(q.tasks, "pending")
    THEN [pc |-> "done", resp |-> [status |-> 200, results |-> q.results]] @@ q
    ELSE q

\* The series.join of the log line throws on a truthy value that is no array.
LogLineThrows(series) == series.t = "string"

\* !series || !Array.isArray(series) || series.length === 0
BatchInvalid(series) == series.t # "array" \/ Len(series.elems) = 0

\* The handler up to `await Promise.all(promises)`, and past it when no
\* promise is pending.  `unhandled` is what the framework does with a
\* rejected handler: nothing (Express 4) or a 500 (Express 5).
BatchStart(series, start_date, end_date, unhandled) ==
    LET base == [kind |-> "batch", series |-> series,
                 start_date |-> start_date, end_date |-> end_date,
                 tasks |-> <<>>, results |-> EmptyMap]
        tasks == [i \in DOMAIN series.elems |->
                      TaskStart(series.elems[i], start_date, end_date)]
    IN  IF LogLineThrows(series)
        THEN IF unhandled = "hung"
             THEN base @@ [pc |-> "hung", via |-> "throw", resp |-> NoResp]
             ELSE base @@ [pc |-> "done", via |-> "throw",
                           resp |-> Respond(500, [error |-> "Internal Server Error"])]
        ELSE IF BatchInvalid(series)
        THEN base @@ [pc |-> "done", via |-> "validation",
                      resp |-> Respond(400, [error |-> "Missing or invalid series array"])]
        ELSE IF KeyMissing
        THEN base @@ [pc |-> "done", via |-> "config",
                      resp |-> Respond(500, [error |-> "Server configuration error"])]
        ELSE Settle([tasks |-> tasks, results |-> HitResults(tasks, EmptyMap),
                     pc |-> "fetching", via |-> "tasks", resp |-> NoResp] @@ base,
                    AnyTask(tasks, "rejected"))

NumPending(q) == Cardinality({i \in DOMAIN q.tasks : q.tasks[i].st = "pending"})

BatchRequest(r, series, start_date, end_date, unhandled) ==
    LET q == BatchStart(series, start_date, end_date, unhandled)
    IN  /\ Free(r)
        /\ Cardinality({r2 \in Reqs : req[r2].kind = "batch"}) < MaxBatch
        /\ fetches + NumPending(q) <= MaxFetch
        /\ req' = [req EXCEPT ![r] = q]
        /\ fetches' = fetches + NumPending(q)
        /\ UNCHANGED <<envKey, now, cache, served>>

(***************************************************************************)
(* One callback of series.map, from the upstream's answer to its end.      *)
(***************************************************************************)
\* Every outcome is caught and recorded under its key.
TaskEnd(t, o) ==
    CASE o.kind = "ok" ->
            [st |-> "ok", data |-> Payload(t.url, served + 1)] @@ t
      [] o.kind = "error" ->
            [st |-> "failed",
             data |-> [error |-> "Failed to fetch", series |-> t.id,
                       status |-> o.status, details |-> RawText(o.body)]] @@ t
      [] OTHER ->
            [st |-> "failed",
             data |-> [error |-> "Internal error fetching", series |-> t.id,
                       message |-> TransportMessage(o)]] @@ t

\* A mutant of ResultsAfter: a failure replaces the results collected so far.
ResultsAfterWipe(results, t) ==
    IF t.st = "failed" THEN Put(EmptyMap, t.id, t.data) ELSE Put(results, t.id, t.data)

\* results[seriesId] = data, or the error descriptor.
ResultsAfter(results, t) == Put(results, t.id, t.data)

\* A mutant of TaskCacheAfter: whatever the callback got is stored.
TaskCacheAfterAlways(t) == CacheSet(t.cacheKey, t.data, now)

\* A mutant of TaskCacheAfter: a key already stored is not written again.
TaskCacheAfterIfAbsent(t) ==
    IF t.st = "ok" /\ ~Has(cache, t.cacheKey)
    THEN CacheSet(t.cacheKey, t.data, now)
    ELSE cache

\* cache.set(cacheKey, { data: data, timestamp: Date.now() }) on success.
TaskCacheAfter(t) ==
    IF t.st = "ok" THEN CacheSet(t.cacheKey, t.data, now) ELSE cache

TaskDone(r, i, o) ==
    /\ Quiet
    /\ req[r].kind = "batch"
    /\ i \in DOMAIN req[r].tasks
    /\ req[r].tasks[i].st = "pending"
    /\ LET t == [outcome |-> o] @@ TaskEnd(req[r].tasks[i], o)
           q == [tasks |-> [req[r].tasks EXCEPT ![i] = t],
                 results |-> ResultsAfter(req[r].results, t)] @@ req[r]
       IN  /\ cache' = TaskCacheAfter(t)
           /\ req' = [req EXCEPT ![r] = Settle(q, FALSE)]
    /\ served' = IF o.kind = "ok" THEN served + 1 ELSE served
    /\ UNCHANGED <<envKey, now, fetches>>

(***************************************************************************)
(* GET /api/health and POST /api/cache/clear.                              *)
(***************************************************************************)
\* A mutant of HealthRequest: only the fresh entries are counted.
HealthRequestFreshOnly(r) ==
    /\ Free(r)
    /\ req' = [req EXCEPT ![r] =
                 [kind |-> "health", pc |-> "done",
                  resp |-> Respond(200, [status |-> "ok",
                                         cache_size |-> Cardinality(
                                             {k \in DOMAIN cache : IsFresh(k, now)}),
                                         api_key_configured |-> ~KeyMissing])]]
    /\ UNCHANGED <<envKey, now, cache, fetches, served>>

HealthRequest(r) ==
    /\ Free(r)
    /\ req' = [req EXCEPT ![r] =
                 [kind |-> "health", pc |-> "done",
                  resp |-> Respond(200, [status |-> "ok",
                                         cache_size |-> Cardinality(DOMAIN cache),
                                         api_key_configured |-> ~KeyMissing])]]
    /\ UNCHANGED <<envKey, now, cache, fetches, served>>

\* A mutant of ClearRequest: only the entries as old as the TTL are removed.
ClearRequestStaleOnly(r) ==
    /\ Free(r)
    /\ cache' = [k \in {j \in DOMAIN cache : IsFresh(j, now)} |-> cache[k]]
    /\ req' = [req EXCEPT ![r] =
                 [kind |-> "clear", pc |-> "done",
                  resp |-> Respond(200, [cache_size |->
                              Cardinality(DOMAIN cache')])]]
    /\ UNCHANGED <<envKey, now, fetches, served>>

ClearRequest(r) ==
    /\ Free(r)
    /\ cache' = EmptyMap
    /\ req' = [req EXCEPT ![r] =
                 [kind |-> "clear", pc |-> "done",
                  resp |-> Respond(200, [cache_size |->
                              Cardinality(DOMAIN cache')])]]
    /\ UNCHANGED <<envKey, now, fetches, served>>

(***************************************************************************)
(* The environment: the clock, and a connection ending.                    *)
(***************************************************************************)
TickSteps == {CACHE_DURATION - 1, CACHE_DURATION}

\* The number of ticks that led to time t.
TicksTaken(t) == t \div (CACHE_DURATION - 1)

Tick(d) ==
    /\ Quiet
    /\ TicksTaken(now) < MaxTicks
    /\ now' = now + d
    /\ UNCHANGED <<envKey, cache, req, fetches, served>>

\* The client has its response (or has given up on a hung request) and no
\* callback of the request is still running: the connection is free again.
Close(r) ==
    /\ Observed(req[r])
    /\ req' = [req EXCEPT ![r] = Idle]
    /\ UNCHANGED <<envKey, now, cache, fetches, served>>

(***************************************************************************)
(* Inputs.                                                                 *)
(***************************************************************************)
SeriesIdInputs == {<<>>, G}
StartInputs == {Undefined, D1}
EndInputs == {Undefined}
SortInputs == {"desc", "asc"}
Elems == {G, <<" ", "G">>, <<" ">>, C, Number7}

RECURSIVE Lists(_)
Lists(n) ==
    IF n = 0 THEN {<<>>}
    ELSE Lists(n - 1) \cup {Append(l, e) : l \in Lists(n - 1), e \in Elems}

SeriesInputs ==
    {SeriesUndefined, SeriesString} \cup {SeriesArray(l) : l \in Lists(MaxLen)}

\* What the framework may do when the handler throws on this input.
Unhandled(series) == IF series.t = "string" THEN {"hung", "500"} ELSE {"500"}

Next ==
    \/ \E r \in Reqs : Free(r) /\ \E id \in SeriesIdInputs, s \in StartInputs,
          e \in EndInputs, o \in SortInputs : SingleRequest(r, id, s, e, o)
    \/ \E r \in Reqs, o \in Outcomes : SingleFetchDone(r, o)
    \/ \E r \in Reqs : Free(r) /\ \E l \in SeriesInputs, s \in StartInputs, e \in EndInputs :
          \E u \in Unhandled(l) : BatchRequest(r, l, s, e, u)
    \/ \E r \in Reqs, i \in 1..MaxLen, o \in Outcomes : TaskDone(r, i, o)
    \/ \E r \in Reqs : HealthRequest(r)
    \/ \E r \in Reqs : ClearRequest(r)
    \/ \E d \in TickSteps : Tick(d)
    \/ \E r \in Reqs : Close(r)

Spec == Init /\ [][Next]_vars

(***************************************************************************)
(* The cache key over the dates a request can carry: omitted, empty, the   *)
(* text "none" and a date.  The requests are the series requests alone,    *)
(* one identifier to a batch, answered with a payload or not at all.       *)
(***************************************************************************)
\* An identifier and a date with a hyphen in them.
HyphenId == <<"G", "-", "2">>
HyphenDate == <<"2", "-", "2">>

KeyIds == {G, C, HyphenId}
KeyDates == {Undefined, <<>>, NoneStr, D1, HyphenDate}
KeyOutcomes == {[kind |-> "ok"], [kind |-> "reject"]}

KeyNext ==
    \/ \E r \in Reqs : Free(r) /\ \E id \in KeyIds, s \in KeyDates, e \in KeyDates :
            SingleRequest(r, id, s, e, "desc")
    \/ \E r \in Reqs, o \in KeyOutcomes : SingleFetchDone(r, o)
    \/ \E r \in Reqs : Free(r) /\ \E id \in KeyIds, s \in KeyDates, e \in KeyDates :
            BatchRequest(r, SeriesArray(<<id>>), s, e, "500")
    \/ \E r \in Reqs, o \in KeyOutcomes : TaskDone(r, 1, o)
    \/ \E r \in Reqs : Close(r)

KeySpec == Init /\ [][KeyNext]_vars

(***************************************************************************)
(* Every upstream call is answered in the end, and every response is taken *)
(* by its client.  An answer can be held back while another response is    *)
(* being taken, so the fairness on the answers is strong.                  *)
(***************************************************************************)
UpstreamAnswers(r) ==
    \/ \E o \in Outcomes : SingleFetchDone(r, o)
    \/ \E i \in 1..MaxLen, o \in Outcomes : TaskDone(r, i, o)

LiveSpec ==
    /\ Spec
    /\ \A r \in Reqs : SF_vars(UpstreamAnswers(r))
    /\ \A r \in Reqs : WF_vars(Close(r))

(***************************************************************************)
(* Properties.                                                             *)
(***************************************************************************)
\* A request arrives on connection r in this step.
Started(r) == req[r].pc = "idle" /\ req'[r].pc # "idle"

\* The response of the request on connection r is sent in this step.
Responds(r) == req[r].resp = NoResp /\ req'[r].resp # NoResp

\* The single-series request on r has its upstream answer in this step.
SingleAnswered(r) ==
    req[r].kind = "single" /\ req[r].pc = "fetching" /\ req'[r].pc = "done"

\* Callback i of the batch request on r has its upstream answer in this step.
TaskAnswered(r, i) ==
    /\ req[r].kind = "batch"
    /\ i \in DOMAIN req[r].tasks
    /\ req[r].tasks[i].st = "pending"
    /\ req'[r].kind = "batch"
    /\ req'[r].tasks[i].st # "pending"

\* The store holds an entry for k that is younger than the TTL.
StoredFresh(k) == k \in DOMAIN cache /\ now - cache[k].timestamp < CACHE_DURATION

\* The store holds an entry for k that is as old as the TTL or older.
StoredStale(k) == k \in DOMAIN cache /\ now - cache[k].timestamp >= CACHE_DURATION

\* A request that got as far as the cache lookup.
LooksUp(q) ==
    \/ q.kind = "single" /\ q.via \in {"hit", "fetch"}
    \/ q.kind = "batch" /\ q.via = "tasks"

\* C1: a lookup that finds a fresh entry for its key is answered with that
\* entry's payload and issues no upstream call: the single-series handler
\* responds 200 with the payload in the same step; a batch callback records
\* the payload under its identifier and does not fetch, and the BatchResult,
\* when it is sent, carries that payload.
C1_FreshHitServed ==
    [][\A r \in Reqs :
        /\ (Started(r) /\ req'[r].kind = "single" /\ LooksUp(req'[r])
            /\ StoredFresh(req'[r].cacheKey))
           => /\ req'[r].pc = "done"
              /\ req'[r].resp = Respond(200, cache[req'[r].cacheKey].data)
              /\ fetches' = fetches
              /\ cache' = cache
        /\ (Started(r) /\ req'[r].kind = "batch" /\ LooksUp(req'[r]))
           => /\ \A i \in DOMAIN req'[r].tasks :
                    LET t == req'[r].tasks[i]
                    IN  (t.st \in {"hit", "pending"} /\ StoredFresh(t.cacheKey))
                        => /\ t.st = "hit"
                           /\ t.data = cache[t.cacheKey].data
                           /\ t.id \in DOMAIN req'[r].results
                           /\ req'[r].results[t.id] = t.data
              /\ fetches' - fetches =
                    Cardinality({i \in DOMAIN req'[r].tasks :
                        /\ req'[r].tasks[i].st \in {"hit", "pending"}
                        /\ ~StoredFresh(req'[r].tasks[i].cacheKey)})
        /\ (Responds(r) /\ req'[r].kind = "batch" /\ req'[r].resp.status = 200)
           => \A i \in DOMAIN req'[r].tasks :
                 req'[r].tasks[i].st = "hit"
                 => req'[r].resp.results[req'[r].tasks[i].id] = req'[r].tasks[i].data
    ]_vars

\* A single-series request was answered from an entry one millisecond short
\* of the TTL.
C1_Witness ==
    \E r \in Reqs :
        /\ req[r].kind = "single"
        /\ req[r].via = "hit"
        /\ req[r].resp.status = 200
        /\ req[r].cacheKey \in DOMAIN cache
        /\ now - cache[req[r].cacheKey].timestamp = CACHE_DURATION - 1
        /\ req[r].resp.body = cache[req[r].cacheKey].data

\* C2: a lookup that finds an entry as old as the TTL or older is a miss: the
\* handler calls the upstream, sends nothing yet and leaves the entry in the
\* store; when that call fails the store is left as it is, and when it
\* succeeds the payload returned is not the one that was stored.
C2_StaleIsMissNotEvicted ==
    [][\A r \in Reqs :
        /\ (Started(r) /\ req'[r].kind = "single" /\ LooksUp(req'[r])
            /\ StoredStale(req'[r].cacheKey))
           => /\ req'[r].pc = "fetching"
              /\ req'[r].resp = NoResp
              /\ fetches' = fetches + 1
              /\ cache' = cache
        /\ (Started(r) /\ req'[r].kind = "batch" /\ LooksUp(req'[r]))
           => /\ \A i \in DOMAIN req'[r].tasks :
                    (req'[r].tasks[i].st \in {"hit", "pending"}
                     /\ StoredStale(req'[r].tasks[i].cacheKey))
                    => req'[r].tasks[i].st = "pending"
              /\ cache' = cache
        /\ (SingleAnswered(r) /\ req'[r].outcome.kind # "ok") => cache' = cache
        /\ (SingleAnswered(r) /\ req'[r].outcome.kind = "ok"
            /\ req[r].cacheKey \in DOMAIN cache)
           => req'[r].resp.body # cache[req[r].cacheKey].data
        /\ \A i \in 1..MaxLen :
              (TaskAnswered(r, i) /\ req'[r].tasks[i].st = "failed") => cache' = cache
    ]_vars

\* A single-series request missed on a stale entry, its fetch was rejected,
\* and the stale entry is still in the store.
C2_Witness ==
    \E r \in Reqs :
        /\ req[r].kind = "single"
        /\ req[r].via = "fetch"
        /\ req[r].pc = "done"
        /\ req[r].outcome.kind = "reject"
        /\ StoredStale(req[r].cacheKey)

AllStrings(series) == \A i \in DOMAIN series.elems : IsString(series.elems[i])

\* The distinct trimmed non-blank identifiers of a list of strings.
Identifiers(series) ==
    {trim(series.elems[i]) : i \in DOMAIN series.elems} \ {<<>>}

\* C3: the BatchResult of a list of string identifiers that passed the upfront
\* validation has exactly one key per distinct trimmed non-blank identifier
\* and none for a blank one; it is sent as soon as no callback is pending.
C3_BatchCompleteness ==
    \A r \in Reqs :
        (req[r].kind = "batch" /\ req[r].via = "tasks" /\ AllStrings(req[r].series))
        => /\ ~Running(req[r]) => req[r].resp.status = 200
           /\ req[r].resp.status = 200
              => DOMAIN req[r].resp.results = Identifiers(req[r].series)

\* A BatchResult for a blank entry and a padded identifier: one key.
C3_Witness ==
    \E r \in Reqs :
        /\ req[r].kind = "batch"
        /\ req[r].series = SeriesArray(<< <<" ">>, <<" ", "G">> >>)
        /\ req[r].resp.status = 200
        /\ DOMAIN req[r].resp.results = {G}

\* The entry a callback's own lookup and own upstream answer give.
OwnEntry(q, t) ==
    CASE t.st = "hit" -> t.data
      [] t.st = "ok" ->
            [url |-> fredURL(t.id, q.start_date, q.end_date, "desc"), ver |-> t.data.ver]
      [] t.st = "failed" /\ t.outcome.kind = "error" ->
            [error |-> "Failed to fetch", series |-> t.id,
             status |-> t.outcome.status, details |-> [text |-> t.outcome.body.raw]]
      [] OTHER ->
            [error |-> "Internal error fetching", series |-> t.id,
             message |-> TransportMessage(t.outcome)]

\* The entries the finished callbacks for identifier id give, each from its
\* own lookup and upstream answer.
OwnEntries(q, id) ==
    {OwnEntry(q, q.tasks[i]) :
        i \in {j \in DOMAIN q.tasks :
                 q.tasks[j].st \in {"hit", "ok", "failed"} /\ q.tasks[j].id = id}}

\* C4: in a batch of string identifiers, when the upstream call for A has
\* failed, the entry of another identifier B is one that a callback for B got
\* from its own lookup and upstream answer, and the response, sent as a 200,
\* carries it.
C4_BatchIsolation ==
    \A r \in Reqs :
        (req[r].kind = "batch" /\ req[r].via = "tasks" /\ AllStrings(req[r].series))
        => \A a, b \in DOMAIN req[r].tasks :
              LET ta == req[r].tasks[a]
                  tb == req[r].tasks[b]
              IN  (/\ ta.st = "failed"
                   /\ tb.st \in {"hit", "ok", "failed"}
                   /\ ta.id # tb.id)
                  => /\ tb.id \in DOMAIN req[r].results
                     /\ req[r].results[tb.id] \in OwnEntries(req[r], tb.id)
                     /\ req[r].resp.status \in {0, 200}
                     /\ ~Running(req[r]) => req[r].resp.status = 200
                     /\ req[r].resp.status = 200
                        => req[r].resp.results[tb.id] = req[r].results[tb.id]

\* A 200 BatchResult in which A's fetch was rejected and B's succeeded.
C4_Witness ==
    \E r \in Reqs :
        /\ req[r].kind = "batch"
        /\ req[r].resp.status = 200
        /\ \E a, b \in DOMAIN req[r].tasks :
              /\ req[r].tasks[a].st = "failed"
              /\ req[r].tasks[a].outcome.kind = "reject"
              /\ req[r].tasks[b].st = "ok"
              /\ req[r].tasks[b].id # req[r].tasks[a].id
              /\ req[r].resp.results[req[r].tasks[b].id] = req[r].tasks[b].data

\* C5: once a batch request has spawned its per-identifier callbacks, the
\* response it sends is a 200, whatever the elements of the list are.
C5_FanOutAlways200 ==
    \A r \in Reqs :
        (req[r].kind = "batch" /\ req[r].via = "tasks" /\ req[r].resp # NoResp)
        => req[r].resp.status = 200

\* C6: a batch request whose series field is missing, is not a list or is an
\* empty list is answered 400 in the step that receives it, with no upstream
\* call and the store unchanged.
C6_InvalidListIs400 ==
    [][\A r \in Reqs :
        (Started(r) /\ req'[r].kind = "batch"
         /\ (req'[r].series.t # "array" \/ Len(req'[r].series.elems) = 0))
        => /\ req'[r].resp.status = 400
           /\ fetches' = fetches
           /\ cache' = cache
    ]_vars

\* C7: with no credential configured no upstream call is ever made and the
\* store never changes; a single-series request with an identifier and a batch
\* request with a non-empty list are answered 500 by the credential check,
\* before any lookup or callback.
C7_NoCredentialNoFetch ==
    (FRED_API_KEY = "")
    => /\ fetches = 0
       /\ cache = EmptyMap
       /\ \A r \in Reqs :
             /\ (req[r].kind = "single" /\ Truthy(req[r].seriesId))
                => /\ req[r].pc = "done"
                   /\ req[r].via = "config"
                   /\ req[r].resp.status = 500
             /\ (req[r].kind = "batch" /\ req[r].series.t = "array"
                 /\ Len(req[r].series.elems) > 0)
                => /\ req[r].pc = "done"
                   /\ req[r].via = "config"
                   /\ req[r].resp.status = 500
                   /\ req[r].tasks = <<>>

\* A batch request with a non-empty list answered 500 with no credential.
C7_Witness ==
    /\ FRED_API_KEY = ""
    /\ \E r \in Reqs :
          /\ req[r].kind = "batch"
          /\ req[r].series.t = "array"
          /\ Len(req[r].series.elems) = MaxLen
          /\ req[r].resp.status = 500

\* C8: when the upstream answers a single-series fetch with an error status S
\* and a body, the handler responds S with the body parsed, or raw when it is
\* not JSON, makes no further upstream call and leaves the store as it is; the
\* request did not change the store when it started either.
C8_StatusPassthrough ==
    [][\A r \in Reqs :
        /\ (Started(r) /\ req'[r].kind = "single") => cache' = cache
        /\ (SingleAnswered(r) /\ req'[r].outcome.kind = "error")
           => /\ req'[r].resp.status = req'[r].outcome.status
              /\ req'[r].resp.body.details
                   = (IF req'[r].outcome.body.json
                      THEN [parsed |-> req'[r].outcome.body.raw]
                      ELSE [text |-> req'[r].outcome.body.raw])
              /\ fetches' = fetches
              /\ cache' = cache
    ]_vars

\* A 429 with a body that is not JSON was passed through.
C8_Witness ==
    \E r \in Reqs :
        /\ req[r].kind = "single"
        /\ req[r].pc = "done"
        /\ req[r].via = "fetch"
        /\ req[r].outcome.kind = "error"
        /\ req[r].outcome.status = 429
        /\ ~req[r].outcome.body.json
        /\ req[r].resp.status = 429

TransportFailures == {"reject", "ok_malformed", "error_nobody"}

\* C9: when a single-series fetch is rejected, or its body cannot be read or
\* parsed, the handler responds 500 with the error's message, makes no further
\* upstream call and leaves the store as it is.
C9_TransportFailureIs500 ==
    [][\A r \in Reqs :
        (SingleAnswered(r) /\ req'[r].outcome.kind \in TransportFailures)
        => /\ req'[r].resp.status = 500
           /\ req'[r].resp.body.message = TransportMessage(req'[r].outcome)
           /\ fetches' = fetches
           /\ cache' = cache
    ]_vars

\* A success status with a body that does not parse was answered 500, and the
\* entry stored for the key before is still there.
C9_Witness ==
    \E r \in Reqs :
        /\ req[r].kind = "single"
        /\ req[r].pc = "done"
        /\ req[r].via = "fetch"
        /\ req[r].outcome.kind = "ok_malformed"
        /\ req[r].resp.status = 500
        /\ req[r].cacheKey \in DOMAIN cache

\* The store after put(key, payload, now): the entry replaced as a whole.
StoreWith(key, data) ==
    [k \in DOMAIN cache \cup {key} |->
        IF k = key THEN [data |-> data, timestamp |-> now] ELSE cache[k]]

\* C10 as stated: in the state in which a 200 response has been sent, the
\* store maps the key of every fetch of the request that succeeded to an entry
\* with the payload that fetch returned.
C10_StoreHoldsPayloadAtResponse ==
    \A r \in Reqs :
        (req[r].pc = "done" /\ req[r].resp.status = 200)
        => /\ (req[r].kind = "single" /\ req[r].via = "fetch")
              => /\ req[r].cacheKey \in DOMAIN cache
                 /\ cache[req[r].cacheKey].data = req[r].resp.body
           /\ (req[r].kind = "batch")
              => \A i \in DOMAIN req[r].tasks :
                    req[r].tasks[i].st = "ok"
                    => /\ req[r].tasks[i].cacheKey \in DOMAIN cache
                       /\ cache[req[r].tasks[i].cacheKey].data = req[r].tasks[i].data

\* C10 (amended): the step in which a fetch for the key that was looked up
\* succeeds writes the store: after it the store is the store before with the
\* key mapped to the payload and the time of the step, the previous entry
\* replaced as a whole. The single-series handler sends the payload in that
\* same step; the batch handler puts it in its results in that step.
C10_WriteThrough ==
    [][\A r \in Reqs :
        /\ (SingleAnswered(r) /\ req'[r].outcome.kind = "ok")
           => /\ req[r].cacheKey
                   = getCacheKey(req[r].seriesId, req[r].start_date, req[r].end_date)
              /\ req'[r].resp.status = 200
              /\ cache' = StoreWith(req[r].cacheKey, req'[r].resp.body)
        /\ \A i \in 1..MaxLen :
              (TaskAnswered(r, i) /\ req'[r].tasks[i].st = "ok")
              => /\ req[r].tasks[i].cacheKey
                      = getCacheKey(trim(req[r].tasks[i].raw),
                                    req[r].start_date, req[r].end_date)
                 /\ cache' = StoreWith(req[r].tasks[i].cacheKey, req'[r].tasks[i].data)
                 /\ req'[r].results[req[r].tasks[i].id] = req'[r].tasks[i].data
    ]_vars

\* A single-series fetch succeeded on a stale entry a TTL after the first
\* write: the entry has the new payload and the time of the second write.
C10_Witness ==
    \E r \in Reqs :
        /\ req[r].kind = "single"
        /\ req[r].pc = "done"
        /\ req[r].via = "fetch"
        /\ req[r].outcome.kind = "ok"
        /\ req[r].resp.body.ver = 2
        /\ now = CACHE_DURATION
        /\ DOMAIN cache = {req[r].cacheKey}
        /\ cache[req[r].cacheKey] = [data |-> req[r].resp.body, timestamp |-> now]

FetchSucceeds(k) ==
    \E r \in Reqs :
        \/ SingleAnswered(r) /\ req'[r].outcome.kind = "ok" /\ req[r].cacheKey = k
        \/ \E i \in 1..MaxLen :
              /\ TaskAnswered(r, i)
              /\ req'[r].tasks[i].st = "ok"
              /\ req[r].tasks[i].cacheKey = k

\* C12: a clear request leaves the store empty and reports size 0, and does
\* not disturb the requests in flight; while the store is empty a health
\* request reports 0; a lookup of a key the store does not hold is a miss; and
\* a key comes into the store only by a fetch for it that succeeds.
C12_ClearEmptiesStore ==
    [][\A r \in Reqs :
        /\ (Started(r) /\ req'[r].kind = "clear")
           => /\ cache' = EmptyMap
              /\ req'[r].pc = "done"
              /\ req'[r].resp.status = 200
              /\ req'[r].resp.body.cache_size = 0
              /\ \A r2 \in Reqs \ {r} : req'[r2] = req[r2]
        /\ (Started(r) /\ req'[r].kind = "health" /\ cache = EmptyMap)
           => req'[r].resp.body.cache_size = 0
        /\ (Started(r) /\ req'[r].kind = "single" /\ LooksUp(req'[r])
            /\ req'[r].cacheKey \notin DOMAIN cache)
           => req'[r].pc = "fetching" /\ fetches' = fetches + 1
        /\ (Started(r) /\ req'[r].kind = "batch" /\ LooksUp(req'[r]))
           => \A i \in DOMAIN req'[r].tasks :
                 (req'[r].tasks[i].st \in {"hit", "pending"}
                  /\ req'[r].tasks[i].cacheKey \notin DOMAIN cache)
                 => req'[r].tasks[i].st = "pending"
        /\ \A k \in DOMAIN cache' \ DOMAIN cache : FetchSucceeds(k)
    ]_vars

\* A clear request was answered while a series request was in flight, after
\* a fetch had put an entry in the store.
C12_Witness ==
    \E r, r2 \in Reqs :
        /\ req[r].kind = "clear"
        /\ req[r].resp.body.cache_size = 0
        /\ cache = EmptyMap
        /\ served >= 1
        /\ req[r2].pc = "fetching"

\* C13: once a batch request has sent its response, none of its callbacks is
\* still waiting for its upstream answer.
C13_ResponseAfterAllTasks ==
    \A r \in Reqs :
        (req[r].kind = "batch" /\ req[r].resp # NoResp)
        => \A i \in DOMAIN req[r].tasks : req[r].tasks[i].st # "pending"

\* The number of non-blank elements of the list of a batch request.
NonBlank(series) ==
    Cardinality({i \in DOMAIN series.elems :
                   ~IsString(series.elems[i]) \/ trim(series.elems[i]) # <<>>})

\* C14: upstream calls are made only in the step in which a request arrives:
\* at most one by a single-series request, at most one per non-blank element
\* by a batch request. The step in which an upstream answer arrives makes no
\* call, whatever the answer: it ends the single-series request, or ends the
\* callback, for good.
C14_NoRetry ==
    [][/\ fetches' # fetches
          => \E r \in Reqs :
                /\ Started(r)
                /\ \/ req'[r].kind = "single" /\ fetches' = fetches + 1
                   \/ /\ req'[r].kind = "batch"
                      /\ fetches' > fetches
                      /\ fetches' - fetches <= NonBlank(req'[r].series)
       /\ \A r \in Reqs :
             /\ (req[r].kind = "single" /\ req[r].pc = "fetching" /\ req'[r] # req[r])
                => req'[r].pc = "done"
             /\ (req[r].kind = "single" /\ req[r].pc = "done")
                => req'[r].pc \in {"done", "idle"}
             /\ (req[r].kind = "batch" /\ req'[r].kind = "batch")
                => /\ DOMAIN req'[r].tasks = DOMAIN req[r].tasks
                   /\ \A i \in DOMAIN req[r].tasks :
                         \/ req'[r].tasks[i].st = req[r].tasks[i].st
                         \/ /\ req[r].tasks[i].st = "pending"
                            /\ req'[r].tasks[i].st \in {"ok", "failed"}
    ]_vars

\* A single-series request whose one upstream call was rejected has been
\* answered, and a batch request made one call for its one non-blank element.
C14_Witness ==
    \E r \in Reqs :
        /\ req[r].kind = "single"
        /\ req[r].pc = "done"
        /\ req[r].via = "fetch"
        /\ req[r].outcome.kind = "reject"
        /\ fetches = 2
        /\ \E r2 \in Reqs :
              /\ req[r2].kind = "batch"
              /\ Len(req[r2].series.elems) = 2
              /\ NumPending(req[r2]) = 1

\* Another request than r is waiting for the upstream answer for key k.
InFlightElsewhere(r, k) ==
    \E r2 \in Reqs \ {r} :
        \/ req[r2].kind = "single" /\ req[r2].pc = "fetching" /\ req[r2].cacheKey = k
        \/ /\ req[r2].kind = "batch"
           /\ \E i \in DOMAIN req[r2].tasks :
                 req[r2].tasks[i].st = "pending" /\ req[r2].tasks[i].cacheKey = k

\* The store after the write of an overlapping fetch: the one entry of key k
\* has the payload and the time of this write, the other entries are as they
\* were, and the payload written before is gone.
LastWriterWins(k, data) ==
    /\ DOMAIN cache' = DOMAIN cache
    /\ cache'[k] = [data |-> data, timestamp |-> now]
    /\ cache'[k].data # cache[k].data
    /\ \A j \in DOMAIN cache \ {k} : cache'[j] = cache[j]

\* C15: a request that misses on a key calls the upstream even when another
\* request is already waiting for the upstream answer for that key; and when a
\* fetch succeeds for a key that an overlapping fetch has written since the
\* lookup (the entry is fresh though the lookup missed), the store keeps one
\* entry for the key, with the payload and the time of this last write.
C15_NoSingleFlightLastWriterWins ==
    [][\A r \in Reqs :
        /\ (Started(r) /\ req'[r].kind = "single" /\ LooksUp(req'[r])
            /\ ~StoredFresh(req'[r].cacheKey)
            /\ InFlightElsewhere(r, req'[r].cacheKey))
           => /\ req'[r].pc = "fetching"
              /\ fetches' = fetches + 1
        /\ (Started(r) /\ req'[r].kind = "batch" /\ LooksUp(req'[r]))
           => \A i \in DOMAIN req'[r].tasks :
                 (/\ req'[r].tasks[i].st \in {"hit", "pending"}
                  /\ ~StoredFresh(req'[r].tasks[i].cacheKey)
                  /\ InFlightElsewhere(r, req'[r].tasks[i].cacheKey))
                 => req'[r].tasks[i].st = "pending"
        /\ (SingleAnswered(r) /\ req'[r].outcome.kind = "ok"
            /\ StoredFresh(req[r].cacheKey))
           => LastWriterWins(req[r].cacheKey, req'[r].resp.body)
        /\ \A i \in 1..MaxLen :
              (TaskAnswered(r, i) /\ req'[r].tasks[i].st = "ok"
               /\ StoredFresh(req[r].tasks[i].cacheKey))
              => LastWriterWins(req[r].tasks[i].cacheKey, req'[r].tasks[i].data)
    ]_vars

\* Two single-series requests for one key both missed and both called the
\* upstream: the first has just been answered and its payload is in the store,
\* the second is still waiting for its answer.
C15_Witness ==
    \E r, r2 \in Reqs :
        /\ r # r2
        /\ req[r].kind = "single" /\ req[r2].kind = "single"
        /\ req[r].cacheKey = req[r2].cacheKey
        /\ req[r].pc = "done" /\ req[r].via = "fetch"
        /\ req[r].outcome.kind = "ok"
        /\ req[r2].pc = "fetching"
        /\ fetches = 2
        /\ cache[req[r].cacheKey].data = req[r].resp.body

\* C16: a health request reports as cache_size the number of entries the
\* store holds when it is handled, stale ones included, and changes neither
\* the store nor the number of upstream calls.
C16_HealthReportsStoreSize ==
    [][\A r \in Reqs :
        (Started(r) /\ req'[r].kind = "health")
        => /\ req'[r].resp.status = 200
           /\ req'[r].resp.body.cache_size = Cardinality(DOMAIN cache)
           /\ cache' = cache
           /\ fetches' = fetches
    ]_vars

\* A health request reported 2 for a store with a stale and a fresh entry.
C16_Witness ==
    \E r \in Reqs :
        /\ req[r].kind = "health"
        /\ req[r].resp.body.cache_size = 2
        /\ \E k \in DOMAIN cache : StoredStale(k)
        /\ \E k \in DOMAIN cache : StoredFresh(k)

\* A date as the key sees it: an omitted date, an empty one and the text
\* "none" are all the sentinel.
KeyDate(d) == IF d \in {Undefined, <<>>, NoneStr} THEN NoneStr ELSE d

\* C17: the key of every lookup is the identifier and the two dates joined by
\* "-", with an omitted date, an empty date and the text "none" all written as
\* "none": requests with equal identifier and equal dates have equal keys, and
\* requests that differ only in how a date is absent have one key.
C17_KeyDeterministic ==
    /\ \A r \in Reqs :
          /\ (req[r].kind = "single" /\ LooksUp(req[r]))
             => req[r].cacheKey
                  = req[r].seriesId \o <<"-">> \o KeyDate(req[r].start_date)
                      \o <<"-">> \o KeyDate(req[r].end_date)
          /\ (req[r].kind = "batch" /\ LooksUp(req[r]))
             => \A i \in DOMAIN req[r].tasks :
                   req[r].tasks[i].st \in {"hit", "pending", "ok", "failed"}
                   => req[r].tasks[i].cacheKey
                        = trim(req[r].tasks[i].raw) \o <<"-">>
                            \o KeyDate(req[r].start_date)
                            \o <<"-">> \o KeyDate(req[r].end_date)
    /\ \A r1, r2 \in Reqs :
          (/\ req[r1].kind = "single" /\ LooksUp(req[r1])
           /\ req[r2].kind = "single" /\ LooksUp(req[r2])
           /\ req[r1].seriesId = req[r2].seriesId
           /\ KeyDate(req[r1].start_date) = KeyDate(req[r2].start_date)
           /\ KeyDate(req[r1].end_date) = KeyDate(req[r2].end_date))
          => req[r1].cacheKey = req[r2].cacheKey

\* A request with an empty start date and "none" as end date was answered
\* from the entry that a request with both dates omitted had stored.
C17_Witness ==
    \E r \in Reqs :
        /\ req[r].kind = "single"
        /\ req[r].via = "hit"
        /\ req[r].start_date = <<>>
        /\ req[r].end_date = NoneStr
        /\ req[r].resp.body.url.observation_start = Undefined
        /\ req[r].resp.body.url.observation_end = Undefined

\* The key a payload was fetched for, read off the upstream request it answers.
KeyOfPayload(data) ==
    data.url.series_id \o <<"-">> \o KeyDate(data.url.observation_start)
        \o <<"-">> \o KeyDate(data.url.observation_end)

\* C18: the entry of a key is created or overwritten only in a step in which
\* a fetch for that key succeeds, so never by an upstream error, a transport
\* error, a validation error or a configuration error; and every entry of the
\* store holds a payload the upstream returned for the entry's key, stored no
\* later than now.
C18_EntriesOnlyFromSuccess ==
    [][/\ \A k \in DOMAIN cache' :
             (k \notin DOMAIN cache \/ cache'[k] # cache[k]) => FetchSucceeds(k)
       /\ \A k \in DOMAIN cache' :
             /\ KeyOfPayload(cache'[k].data) = k
             /\ cache'[k].data.ver \in 1..served'
             /\ cache'[k].timestamp <= now'
       /\ \A r \in Reqs :
             (Responds(r) /\ req'[r].resp.status # 200 /\ ~Running(req[r]))
             => cache' = cache
    ]_vars

\* A batch callback got an upstream error for a key the store holds: the
\* entry is still the payload fetched for that key.
C18_Witness ==
    \E r \in Reqs :
        /\ req[r].kind = "batch"
        /\ req[r].resp.status = 200
        /\ \E i \in DOMAIN req[r].tasks :
              /\ req[r].tasks[i].st = "failed"
              /\ req[r].tasks[i].outcome.kind = "error"
              /\ req[r].tasks[i].cacheKey \in DOMAIN cache
              /\ cache[req[r].tasks[i].cacheKey].data.url.series_id = req[r].tasks[i].id

\* C19: the step in which a request arrives and looks up the store leaves the
\* store as it is, for a hit as for a miss: a hit does not touch the payload
\* or the time of the entry, and the entry it serves is younger than the TTL,
\* counted from the write that stored it, at the moment of the lookup.
C19_HitLeavesStoreUnchanged ==
    [][\A r \in Reqs :
        /\ (Started(r) /\ req'[r].kind \in {"single", "batch"}) => cache' = cache
        /\ (Started(r) /\ req'[r].kind = "single" /\ req'[r].via = "hit")
           => /\ cache'[req'[r].cacheKey] = cache[req'[r].cacheKey]
              /\ now - cache[req'[r].cacheKey].timestamp < CACHE_DURATION
              /\ now - cache[req'[r].cacheKey].timestamp >= 0
        /\ (Started(r) /\ req'[r].kind = "batch" /\ req'[r].via = "tasks")
           => \A i \in DOMAIN req'[r].tasks :
                 req'[r].tasks[i].st = "hit"
                 => /\ cache'[req'[r].tasks[i].cacheKey]
                         = cache[req'[r].tasks[i].cacheKey]
                    /\ now - cache[req'[r].tasks[i].cacheKey].timestamp < CACHE_DURATION
                    /\ now - cache[req'[r].tasks[i].cacheKey].timestamp >= 0
    ]_vars

\* A batch request was answered from an entry one millisecond short of the
\* TTL, and the entry still has the time of its write.
C19_Witness ==
    \E r \in Reqs :
        /\ req[r].kind = "batch"
        /\ req[r].resp.status = 200
        /\ now = CACHE_DURATION - 1
        /\ \E i \in DOMAIN req[r].tasks :
              /\ req[r].tasks[i].st = "hit"
              /\ cache[req[r].tasks[i].cacheKey].timestamp = 0
              /\ cache[req[r].tasks[i].cacheKey].data = req[r].tasks[i].data

\* C20: a step either keeps every key of the store, or is the step of a clear
\* request, which leaves no key; a series request, a batch request, a health
\* request and an upstream answer remove no entry, stale or fresh.
C20_KeysShrinkOnlyByClear ==
    [][\/ DOMAIN cache \subseteq DOMAIN cache'
       \/ /\ cache' = EmptyMap
          /\ \E r \in Reqs : Started(r) /\ req'[r].kind = "clear"
    ]_vars

\* A fetch has just written a second key while the first key's entry, as old
\* as the TTL, is still in the store.
C20_Witness ==
    \E r \in Reqs :
        /\ req[r].kind = "single"
        /\ req[r].via = "fetch"
        /\ req[r].pc = "done"
        /\ req[r].outcome.kind = "ok"
        /\ cache[req[r].cacheKey].timestamp = now
        /\ \E k \in DOMAIN cache : k # req[r].cacheKey /\ StoredStale(k)

\* The store holds under k a fresh payload that was fetched for identifier id
\* and the dates s and e, an absent date being a date all the same.
FreshFor(k, id, s, e) ==
    /\ StoredFresh(k)
    /\ cache[k].data.url.series_id = id
    /\ KeyDate(cache[k].data.url.observation_start) = KeyDate(s)
    /\ KeyDate(cache[k].data.url.observation_end) = KeyDate(e)

\* C21: whichever path wrote it, a fresh entry fetched for an identifier and
\* two dates is served to a single-series request for that identifier and
\* those dates, and to a batch member with that trimmed identifier and those
\* dates, with no upstream call for it.
C21_PathsShareStore ==
    [][\A r \in Reqs : \A k \in DOMAIN cache :
        /\ (/\ Started(r) /\ req'[r].kind = "single" /\ LooksUp(req'[r])
            /\ FreshFor(k, req'[r].seriesId, req'[r].start_date, req'[r].end_date))
           => /\ req'[r].via = "hit"
              /\ req'[r].resp = Respond(200, cache[k].data)
              /\ fetches' = fetches
        /\ (Started(r) /\ req'[r].kind = "batch" /\ LooksUp(req'[r]))
           => /\ \A i \in DOMAIN req'[r].tasks :
                    (/\ req'[r].tasks[i].st \in {"hit", "pending"}
                     /\ FreshFor(k, trim(req'[r].tasks[i].raw),
                                 req'[r].start_date, req'[r].end_date))
                    => /\ req'[r].tasks[i].st = "hit"
                       /\ req'[r].tasks[i].data = cache[k].data
                       /\ req'[r].results[req'[r].tasks[i].id] = cache[k].data
              /\ fetches' - fetches = NumPending(req'[r])
    ]_vars

\* A batch member was answered, with no upstream call, from an entry that
\* only a single-series request can have written: it was fetched ascending.
C21_Witness ==
    \E r \in Reqs :
        /\ req[r].kind = "batch"
        /\ req[r].resp.status = 200
        /\ fetches = 1
        /\ \E i \in DOMAIN req[r].tasks :
              /\ req[r].tasks[i].st = "hit"
              /\ req[r].tasks[i].raw = <<" ", "G">>
              /\ req[r].tasks[i].data.url.sort_order = "asc"
              /\ req[r].resp.results[G] = cache[req[r].tasks[i].cacheKey].data

\* C22: a payload returned to a single-series request was fetched with the
\* sort order the request asks for, and a payload returned to a batch member
\* was fetched with "desc", whether it was fetched or served from the store.
C22_SortOrderRespected ==
    \A r \in Reqs :
        /\ (req[r].kind = "single" /\ req[r].resp.status = 200)
           => req[r].resp.body.url.sort_order = req[r].sort_order
        /\ (req[r].kind = "batch" /\ req[r].via = "tasks")
           => \A i \in DOMAIN req[r].tasks :
                 req[r].tasks[i].st \in {"hit", "ok"}
                 => req[r].tasks[i].data.url.sort_order = "desc"

\* C23: two lookups have the same key only if they have the same identifier
\* and the same dates, an absent date and the text "none" being one date; and
\* a request is answered from the store only with a payload that was fetched
\* for its identifier and its dates.
C23_KeyInjective ==
    /\ \A r1, r2 \in Reqs :
          (/\ req[r1].kind = "single" /\ LooksUp(req[r1])
           /\ req[r2].kind = "single" /\ LooksUp(req[r2])
           /\ req[r1].cacheKey = req[r2].cacheKey)
          => /\ req[r1].seriesId = req[r2].seriesId
             /\ KeyDate(req[r1].start_date) = KeyDate(req[r2].start_date)
             /\ KeyDate(req[r1].end_date) = KeyDate(req[r2].end_date)
    /\ \A r \in Reqs :
          (req[r].kind = "single" /\ req[r].via = "hit")
          => /\ req[r].resp.body.url.series_id = req[r].seriesId
             /\ KeyDate(req[r].resp.body.url.observation_start)
                  = KeyDate(req[r].start_date)
             /\ KeyDate(req[r].resp.body.url.observation_end)
                  = KeyDate(req[r].end_date)

\* C24: every single-series request and every batch request sends a response
\* in the end, given that every upstream call is answered.
C24_EveryRequestAnswered ==
    \A r \in Reqs :
        (req[r].kind \in {"single", "batch"}) ~> (req[r].resp # NoResp)

====
